---- MODULE Spec2Model ----
(***************************************************************************)
(* A model of the duckduckgo package: the MCP tool search_tool             *)
(* (src/src/duckduckgo/mcp.py) and the command line main_cli               *)
(* (src/src/duckduckgo/cli.py).                                            *)
(*                                                                         *)
(* A Python str is a sequence of one-character strings, so that strip,     *)
(* lower, join, slicing and truthiness are computed as Python computes     *)
(* them; a str the code only compares or hands on (a category, a           *)
(* safesearch level, a region-table entry) is a TLA+ string.  An optional  *)
(* value is a tagged record: S(s) for the string s, None for Python's      *)
(* None.  A dict is a function whose domain is its keys.                   *)
(***************************************************************************)
EXTENDS Integers, Sequences, FiniteSets, TLC

VARIABLES
    pc,           \* position of the running entry point
    caller,       \* "none" | "mcp" (tool called by the server) | "cli"
    args,         \* <<>> or <<namespace>>: the parsed command line
    kwargs,       \* what the caller of search_tool supplied explicitly
    req,          \* <<>> or <<parameters>>: search_tool's bound parameters
    tl,           \* search_tool's local tl
    calls,        \* provider retrieval calls made by the running invocation
    raw_results,  \* what the provider returned
    idx,          \* position of the for loop in raw_results
    results,      \* search_tool's local results
    response,     \* <<>> or <<SearchResponse>>
    out,          \* what main_cli wrote to stdout, in order
    region_codes, \* the module-level dict REGION_CODES
    resource      \* <<>> or <<what the regions resource returned>>

vars == <<pc, caller, args, kwargs, req, tl, calls, raw_results, idx, results,
          response, out, region_codes, resource>>

-----------------------------------------------------------------------------
(* Python values *)

None == [tag |-> "None", val |-> <<>>]

S(s) == [tag |-> "str", val |-> s]

IsStr(v) == v.tag = "str"

\* bool(v) for v a str or None: None and "" are falsy
Truthy(v) == IsStr(v) /\ v.val # <<>>

\* a or b
Or(a, b) == IF Truthy(a) THEN a ELSE b

\* d.get(k): None when the key is missing
Get(d, k) == IF k \in DOMAIN d THEN d[k] ELSE None

\* d.get(k, default): the default only when the key is missing
GetDefault(d, k, default) == IF k \in DOMAIN d THEN d[k] ELSE default

-----------------------------------------------------------------------------
(* str.strip() and str.lower() *)

Whitespace == {" ", "\t", "\n"}

UpperCase == <<"A","B","C","D","E","F","G","H","I","J","K","L","M",
               "N","O","P","Q","R","S","T","U","V","W","X","Y","Z">>

LowerCase == <<"a","b","c","d","e","f","g","h","i","j","k","l","m",
               "n","o","p","q","r","s","t","u","v","w","x","y","z">>

LowerChar(c) ==
    IF \E n \in 1..Len(UpperCase) : UpperCase[n] = c
    THEN LowerCase[CHOOSE n \in 1..Len(UpperCase) : UpperCase[n] = c]
    ELSE c

Lower(s) == [n \in 1..Len(s) |-> LowerChar(s[n])]

RECURSIVE LStrip(_)
LStrip(s) ==
    IF s # <<>> /\ Head(s) \in Whitespace THEN LStrip(Tail(s)) ELSE s

RECURSIVE RStrip(_)
RStrip(s) ==
    IF s # <<>> /\ s[Len(s)] \in Whitespace
    THEN RStrip(SubSeq(s, 1, Len(s) - 1))
    ELSE s

\* strips the leading blanks only
StripLeftOnly(s) == LStrip(s)

Strip(s) == RStrip(LStrip(s))

-----------------------------------------------------------------------------
(* search_tool: the time-limit table *)

TimelimitTable ==
    (<<"d","a","y">> :> <<"d">>) @@ (<<"w","e","e","k">> :> <<"w">>) @@
    (<<"m","o","n","t","h">> :> <<"m">>) @@ (<<"y","e","a","r">> :> <<"y">>)

\* {...}.get(timelimit.strip().lower(), None) if timelimit else None
MapTimelimit(timelimit) ==
    IF Truthy(timelimit)
    THEN LET key == Lower(Strip(timelimit.val))
         IN  IF key \in DOMAIN TimelimitTable
             THEN S(TimelimitTable[key])
             ELSE None
    ELSE None

\* region or "us-en"
RegionParam(region) == Or(region, S(<<"u","s","-","e","n">>))

\* the chain with the else branch failing over to news
MethodForElseNews(categories) ==
    IF categories = "text" THEN "text"
    ELSE IF categories = "news" THEN "news"
    ELSE IF categories = "images" THEN "images"
    ELSE IF categories = "videos" THEN "videos"
    ELSE "news"

\* the if/elif chain on categories; the else branch falls back to text
MethodFor(categories) ==
    IF categories = "text" THEN "text"
    ELSE IF categories = "news" THEN "news"
    ELSE IF categories = "images" THEN "images"
    ELSE IF categories = "videos" THEN "videos"
    ELSE "text"

-----------------------------------------------------------------------------
(* search_tool: one raw record to one SearchResult *)

NoTitle == <<"N","o"," ","t","i","t","l","e">>
NoURL   == <<"N","o"," ","U","R","L">>
NoBody  == <<"N","o"," ","b","o","d","y">>

\* result.get("title", "No title")
TitleOf(result) == GetDefault(result, "title", S(NoTitle))

\* href or url or content or image or "No URL"
UrlOf(result) ==
    Or(Get(result, "href"),
       Or(Get(result, "url"),
          Or(Get(result, "content"),
             Or(Get(result, "image"), S(NoURL)))))

\* body or description or "No body"
BodyOf(result) ==
    Or(Get(result, "body"), Or(Get(result, "description"), S(NoBody)))

\* SearchResult(title=, url=, body=): every field is declared str, so the
\* constructor raises a validation error on None
SearchResultValid(result) ==
    IsStr(TitleOf(result)) /\ IsStr(UrlOf(result)) /\ IsStr(BodyOf(result))

SearchResult(result) ==
    [title |-> TitleOf(result).val,
     url   |-> UrlOf(result).val,
     body  |-> BodyOf(result).val]

\* puts the new result in front of the list
AppendResultInFront(rs, r) == <<r>> \o rs

\* results.append(...)
AppendResult(rs, r) == Append(rs, r)

\* counts with the index of the last result
SearchResponseLastIndex(query, rs) ==
    [query |-> query, results |-> rs, total_results |-> Len(rs) - 1]

\* SearchResponse(query=query, results=results, total_results=len(results))
SearchResponse(query, rs) ==
    [query |-> query, results |-> rs, total_results |-> Len(rs)]

-----------------------------------------------------------------------------
(* The region-code table and the regions resource *)

\* the dict literal REGION_CODES is built from, in the order of its items
REGION_CODES == <<
    [code |-> "xa-ar", name |-> "Arabia"],
    [code |-> "xa-en", name |-> "Arabia (en)"],
    [code |-> "ar-es", name |-> "Argentina"],
    [code |-> "au-en", name |-> "Australia"],
    [code |-> "at-de", name |-> "Austria"],
    [code |-> "be-fr", name |-> "Belgium (fr)"],
    [code |-> "be-nl", name |-> "Belgium (nl)"],
    [code |-> "br-pt", name |-> "Brazil"],
    [code |-> "bg-bg", name |-> "Bulgaria"],
    [code |-> "ca-en", name |-> "Canada"],
    [code |-> "ca-fr", name |-> "Canada (fr)"],
    [code |-> "ct-ca", name |-> "Catalan"],
    [code |-> "cl-es", name |-> "Chile"],
    [code |-> "cn-zh", name |-> "China"],
    [code |-> "co-es", name |-> "Colombia"],
    [code |-> "hr-hr", name |-> "Croatia"],
    [code |-> "cz-cs", name |-> "Czech Republic"],
    [code |-> "dk-da", name |-> "Denmark"],
    [code |-> "ee-et", name |-> "Estonia"],
    [code |-> "fi-fi", name |-> "Finland"],
    [code |-> "fr-fr", name |-> "France"],
    [code |-> "de-de", name |-> "Germany"],
    [code |-> "gr-el", name |-> "Greece"],
    [code |-> "hk-tzh", name |-> "Hong Kong"],
    [code |-> "hu-hu", name |-> "Hungary"],
    [code |-> "in-en", name |-> "India"],
    [code |-> "id-id", name |-> "Indonesia"],
    [code |-> "id-en", name |-> "Indonesia (en)"],
    [code |-> "ie-en", name |-> "Ireland"],
    [code |-> "il-he", name |-> "Israel"],
    [code |-> "it-it", name |-> "Italy"],
    [code |-> "jp-jp", name |-> "Japan"],
    [code |-> "kr-kr", name |-> "Korea"],
    [code |-> "lv-lv", name |-> "Latvia"],
    [code |-> "lt-lt", name |-> "Lithuania"],
    [code |-> "xl-es", name |-> "Latin America"],
    [code |-> "my-ms", name |-> "Malaysia"],
    [code |-> "my-en", name |-> "Malaysia (en)"],
    [code |-> "mx-es", name |-> "Mexico"],
    [code |-> "nl-nl", name |-> "Netherlands"],
    [code |-> "nz-en", name |-> "New Zealand"],
    [code |-> "no-no", name |-> "Norway"],
    [code |-> "pe-es", name |-> "Peru"],
    [code |-> "ph-en", name |-> "Philippines"],
    [code |-> "ph-tl", name |-> "Philippines (tl)"],
    [code |-> "pl-pl", name |-> "Poland"],
    [code |-> "pt-pt", name |-> "Portugal"],
    [code |-> "ro-ro", name |-> "Romania"],
    [code |-> "ru-ru", name |-> "Russia"],
    [code |-> "sg-en", name |-> "Singapore"],
    [code |-> "sk-sk", name |-> "Slovak Republic"],
    [code |-> "sl-sl", name |-> "Slovenia"],
    [code |-> "za-en", name |-> "South Africa"],
    [code |-> "es-es", name |-> "Spain"],
    [code |-> "se-sv", name |-> "Sweden"],
    [code |-> "ch-de", name |-> "Switzerland (de)"],
    [code |-> "ch-fr", name |-> "Switzerland (fr)"],
    [code |-> "ch-it", name |-> "Switzerland (it)"],
    [code |-> "tw-tzh", name |-> "Taiwan"],
    [code |-> "th-th", name |-> "Thailand"],
    [code |-> "tr-tr", name |-> "Turkey"],
    [code |-> "ua-uk", name |-> "Ukraine"],
    [code |-> "uk-en", name |-> "United Kingdom"],
    [code |-> "us-en", name |-> "United States"],
    [code |-> "ue-es", name |-> "United States (es)"],
    [code |-> "ve-es", name |-> "Venezuela"],
    [code |-> "vn-vi", name |-> "Vietnam"],
    [code |-> "wt-wt", name |-> "No region"]
>>

RegionsNote ==
    "Pass one of these codes as the 'region' parameter. Use null to let DuckDuckGo choose a default (worldwide)."

\* the resource with the last item of the dict left out of the list
get_regions_short ==
    [note    |-> RegionsNote,
     count   |-> Len(region_codes),
     regions |-> [n \in 1..(Len(region_codes) - 1) |->
                    [code |-> region_codes[n].code,
                     name |-> region_codes[n].name]]]

\* get_regions(): {"note": ..., "count": len(REGION_CODES), "regions": [...]}
get_regions ==
    [note    |-> RegionsNote,
     count   |-> Len(region_codes),
     regions |-> [n \in 1..Len(region_codes) |->
                    [code |-> region_codes[n].code,
                     name |-> region_codes[n].name]]]

-----------------------------------------------------------------------------
(* Inputs *)

\* longest sequence of records the provider returns
MaxLen == 2

SeqsUpTo(set, n) == UNION {[1..k -> set] : k \in 0..n}

Queries == {<<"q">>, <<"d","d","g">>}

MaxResultsValues == {1, 50}

\* the four categories of the signature, and a value outside them
Categories == {"text", "images", "videos", "news"}
SuppliedCategories == Categories \cup {"audio"}

RegionValues == {None, S(<<>>), S(<<"d","e","-","d","e">>)}

SafesearchValues == {"on", "moderate", "off"}

TimelimitValues ==
    {None, S(<<>>), S(<<" ","W","E","E","K"," ">>),
     S(<<"d","e","c","a","d","e">>)}

\* records as the provider returns them for the different categories
RawText  == [title |-> S(<<"T","1">>), href |-> S(<<"h","1">>),
             url |-> S(<<"u","1">>), body |-> S(<<"B","1">>)]
RawNews  == [title |-> S(<<"T","2">>), url |-> S(<<"u","2">>),
             href |-> S(<<>>), description |-> S(<<"D","2">>)]
RawVideo == [content |-> S(<<"c","3">>), description |-> S(<<"D","3">>)]
RawNullTitle == [title |-> None, href |-> S(<<"h","4">>)]

RawSample == {RawText, RawNews, RawVideo, RawNullTitle}

ProviderReturns == SeqsUpTo(RawSample, MaxLen)

\* what a caller of search_tool supplies: categories and region may be left
\* out, and then the signature's defaults apply
ToolCalls ==
    [query      : Queries,
     max_results: MaxResultsValues,
     categories : {<<>>} \cup {<<c>> : c \in SuppliedCategories},
     region     : {<<>>} \cup {<<r>> : r \in RegionValues},
     safesearch : SafesearchValues,
     timelimit  : TimelimitValues]

\* the signature of search_tool: categories = "text", region = None
BindParameters(kw) ==
    [query       |-> kw.query,
     max_results |-> kw.max_results,
     categories  |-> IF kw.categories = <<>> THEN "text" ELSE kw.categories[1],
     region      |-> IF kw.region = <<>> THEN None ELSE kw.region[1],
     safesearch  |-> kw.safesearch,
     timelimit   |-> kw.timelimit]

-----------------------------------------------------------------------------
(* The state after start-up: no entry point is running *)

Init ==
    /\ pc = "idle"
    /\ caller = "none"
    /\ args = <<>>
    /\ kwargs = <<>>
    /\ req = <<>>
    /\ tl = None
    /\ calls = <<>>
    /\ raw_results = <<>>
    /\ idx = 0
    /\ results = <<>>
    /\ response = <<>>
    /\ out = <<>>
    /\ region_codes = REGION_CODES
    /\ resource = <<>>

-----------------------------------------------------------------------------
(* search_tool *)

\* the server calls the tool with keyword arguments drawn from kws
McpCallFrom(kws) ==
    /\ pc = "idle"
    /\ \E kw \in kws :
          /\ kwargs' = <<kw>>
          /\ req' = <<BindParameters(kw)>>
    /\ caller' = "mcp"
    /\ pc' = "tool_entry"
    /\ UNCHANGED <<args, tl, calls, raw_results, idx, results, response, out,
                   region_codes, resource>>

McpCall == McpCallFrom(ToolCalls)

\* tl = {...}.get(timelimit.strip().lower(), None) if timelimit else None
ToolMapTimelimit ==
    /\ pc = "tool_entry"
    /\ tl' = MapTimelimit(req[1].timelimit)
    /\ pc' = "tool_dispatch"
    /\ UNCHANGED <<caller, args, kwargs, req, calls, raw_results, idx,
                   results, response, out, region_codes, resource>>

\* the call with the provider's own safesearch default in place of the
\* request's level
ProviderCallModerate(r, t) ==
    [method      |-> MethodFor(r.categories),
     query       |-> r.query,
     max_results |-> r.max_results,
     region      |-> RegionParam(r.region),
     safesearch  |-> "moderate",
     timelimit   |-> t]

\* client.<method>(query, max_results=, region=region_param, safesearch=,
\* timelimit=tl)
ProviderCall(r, t) ==
    [method      |-> MethodFor(r.categories),
     query       |-> r.query,
     max_results |-> r.max_results,
     region      |-> RegionParam(r.region),
     safesearch  |-> r.safesearch,
     timelimit   |-> t]

\* the one provider call of the if/elif chain; the provider answers with any
\* sequence of records from returns
ToolDispatchFrom(returns) ==
    /\ pc = "tool_dispatch"
    /\ calls' = Append(calls, ProviderCall(req[1], tl))
    /\ \E rr \in returns : raw_results' = rr
    /\ results' = <<>>
    /\ idx' = 1
    /\ pc' = "tool_loop"
    /\ UNCHANGED <<caller, args, kwargs, req, tl, response, out, region_codes,
                   resource>>

ToolDispatch == ToolDispatchFrom(ProviderReturns)

\* one iteration of "for result in raw_results" that appends a SearchResult
ToolLoopAppend ==
    /\ pc = "tool_loop"
    /\ idx <= Len(raw_results)
    /\ SearchResultValid(raw_results[idx])
    /\ results' = AppendResult(results, SearchResult(raw_results[idx]))
    /\ idx' = idx + 1
    /\ UNCHANGED <<pc, caller, args, kwargs, req, tl, calls, raw_results,
                   response, out, region_codes, resource>>

\* an iteration in which SearchResult(...) raises: the exception leaves
\* search_tool, and main_cli when it is the caller
ToolLoopRaise ==
    /\ pc = "tool_loop"
    /\ idx <= Len(raw_results)
    /\ ~SearchResultValid(raw_results[idx])
    /\ pc' = "raised"
    /\ UNCHANGED <<caller, args, kwargs, req, tl, calls, raw_results, idx,
                   results, response, out, region_codes, resource>>

\* return SearchResponse(...)
ToolReturn ==
    /\ pc = "tool_loop"
    /\ idx > Len(raw_results)
    /\ response' = <<SearchResponse(req[1].query, results)>>
    /\ pc' = IF caller = "cli" THEN "cli_print" ELSE "returned"
    /\ UNCHANGED <<caller, args, kwargs, req, tl, calls, raw_results, idx,
                   results, out, region_codes, resource>>

\* the server reads the resource duckduckgo://regions: get_regions()
McpReadRegions ==
    /\ pc = "idle"
    /\ resource' = <<get_regions>>
    /\ caller' = "mcp"
    /\ pc' = "resource_returned"
    /\ UNCHANGED <<args, kwargs, req, tl, calls, raw_results, idx, results,
                   response, out, region_codes>>

\* the server has answered (a response or an error) and waits for the next
\* request; nothing of the finished invocation is kept
McpNext ==
    /\ caller = "mcp"
    /\ pc \in {"returned", "raised", "resource_returned"}
    /\ pc' = "idle"
    /\ caller' = "none"
    /\ kwargs' = <<>>
    /\ req' = <<>>
    /\ tl' = None
    /\ calls' = <<>>
    /\ raw_results' = <<>>
    /\ idx' = 0
    /\ results' = <<>>
    /\ response' = <<>>
    /\ resource' = <<>>
    /\ UNCHANGED <<args, out, region_codes>>

-----------------------------------------------------------------------------
(* The prompt templates *)

\* search_assistant(query, context): the fixed template around the query,
\* with the "Additional context" paragraph only when context is not empty
search_assistant(query, context) ==
    [kind    |-> "search_assistant",
     query   |-> query,
     context |-> IF context # <<>> THEN <<context>> ELSE <<>>]

\* depth_levels.get(depth, depth_levels["basic"])
QuestionsDesc(depth) ==
    IF depth = "basic" THEN "3-5 key questions"
    ELSE IF depth = "intermediate" THEN "5-8 focused questions"
    ELSE IF depth = "comprehensive" THEN "8-12 detailed questions"
    ELSE "3-5 key questions"

\* research_planner(topic, depth): the fixed template around the topic, the
\* description of the depth, and the depth as given
research_planner(topic, depth) ==
    [kind      |-> "research_planner",
     topic     |-> topic,
     questions |-> QuestionsDesc(depth),
     depth     |-> depth]

-----------------------------------------------------------------------------
(* main_cli *)

BODY_PREVIEW_LENGTH == 200

\* " ".join(tokens)
RECURSIVE Join(_)
Join(tokens) ==
    IF tokens = <<>> THEN <<>>
    ELSE IF Len(tokens) = 1 THEN tokens[1]
    ELSE tokens[1] \o <<" ">> \o Join(Tail(tokens))

\* positional arguments: none, one empty token, one token, two tokens, two
\* empty tokens
TokenLists ==
    {<<>>, << <<>> >>, << <<"a">> >>, << <<"a">>, <<"b">> >>,
     << <<>>, <<>> >>}

\* the namespaces parse_args can return (options outside their choices make
\* argparse exit before main_cli's own code runs)
CliArgs ==
    [query           : TokenLists,
     max_results     : {10},
     region          : {None, S(<<"d","e","-","d","e">>)},
     safesearch      : {"off", "on"},
     timelimit       : {None, S(<<"w","e","e","k">>)},
     categories      : {"text", "videos"},
     json            : BOOLEAN,
     resoure_regions : BOOLEAN,
     prompt_search_assistant         : {None, S(<<>>), S(<<"p">>)},
     prompt_search_assistant_context : {<<>>, <<"c">>},
     prompt_research_planner         : {None, S(<<>>), S(<<"r">>)},
     prompt_research_planner_depth   : {"basic", "deep"}]

\* args = parser.parse_args(), for a command line that parses to a namespace
\* of namespaces
CliStartFrom(namespaces) ==
    /\ pc = "idle"
    /\ \E a \in namespaces : args' = <<a>>
    /\ caller' = "cli"
    /\ pc' = "cli_main"
    /\ UNCHANGED <<kwargs, req, tl, calls, raw_results, idx, results,
                   response, out, region_codes, resource>>

CliStart == CliStartFrom(CliArgs)

\* if args.prompt_search_assistant: write the prompt and return
CliPromptSearchAssistant ==
    /\ pc = "cli_main"
    /\ Truthy(args[1].prompt_search_assistant)
    /\ out' = out \o
              <<search_assistant(args[1].prompt_search_assistant.val,
                                 args[1].prompt_search_assistant_context)>>
    /\ pc' = "cli_done"
    /\ UNCHANGED <<caller, args, kwargs, req, tl, calls, raw_results, idx,
                   results, response, region_codes, resource>>

\* if args.prompt_research_planner: write the prompt and return
CliPromptResearchPlanner ==
    /\ pc = "cli_main"
    /\ ~Truthy(args[1].prompt_search_assistant)
    /\ Truthy(args[1].prompt_research_planner)
    /\ out' = out \o
              <<research_planner(args[1].prompt_research_planner.val,
                                 args[1].prompt_research_planner_depth)>>
    /\ pc' = "cli_done"
    /\ UNCHANGED <<caller, args, kwargs, req, tl, calls, raw_results, idx,
                   results, response, region_codes, resource>>

\* the lines written for the regions resource without --json
RegionLines(data) ==
    <<[kind |-> "regions_header", count |-> data.count]>> \o
    [n \in 1..Len(data.regions) |->
        [kind |-> "region",
         code |-> data.regions[n].code,
         name |-> data.regions[n].name]]

\* if args.resoure_regions: write the regions resource and return
CliRegions ==
    /\ pc = "cli_main"
    /\ ~Truthy(args[1].prompt_search_assistant)
    /\ ~Truthy(args[1].prompt_research_planner)
    /\ args[1].resoure_regions
    /\ out' = out \o
              (IF args[1].json
               THEN <<[kind |-> "json", value |-> get_regions]>>
               ELSE RegionLines(get_regions))
    /\ pc' = "cli_done"
    /\ UNCHANGED <<caller, args, kwargs, req, tl, calls, raw_results, idx,
                   results, response, region_codes, resource>>

\* "if not args.query": true of the empty list of tokens only
QueryMissing(tokens) == tokens = <<>>

\* parser.error("Search query is required"): usage on stderr, exit status 2
CliUsageError ==
    /\ pc = "cli_main"
    /\ ~Truthy(args[1].prompt_search_assistant)
    /\ ~Truthy(args[1].prompt_research_planner)
    /\ ~args[1].resoure_regions
    /\ QueryMissing(args[1].query)
    /\ pc' = "cli_usage_error"
    /\ UNCHANGED <<caller, args, kwargs, req, tl, calls, raw_results, idx,
                   results, response, out, region_codes, resource>>

\* the keyword arguments of main_cli's call of search_tool
CliKwargs(a) ==
    [query       |-> Join(a.query),
     max_results |-> a.max_results,
     categories  |-> <<a.categories>>,
     region      |-> <<a.region>>,
     safesearch  |-> a.safesearch,
     timelimit   |-> a.timelimit]

\* query = " ".join(args.query); response = search_tool(query, ...)
CliSearch ==
    /\ pc = "cli_main"
    /\ ~Truthy(args[1].prompt_search_assistant)
    /\ ~Truthy(args[1].prompt_research_planner)
    /\ ~args[1].resoure_regions
    /\ ~QueryMissing(args[1].query)
    /\ kwargs' = <<CliKwargs(args[1])>>
    /\ req' = <<BindParameters(CliKwargs(args[1]))>>
    /\ pc' = "tool_entry"
    /\ UNCHANGED <<caller, args, tl, calls, raw_results, idx, results,
                   response, out, region_codes, resource>>

\* if not results: "No results found."
CliPrintNoResults ==
    /\ pc = "cli_print"
    /\ response[1].results = <<>>
    /\ out' = out \o <<[kind |-> "line", text |-> "No results found."]>>
    /\ pc' = "cli_done"
    /\ UNCHANGED <<caller, args, kwargs, req, tl, calls, raw_results, idx,
                   results, response, region_codes, resource>>

\* json.dumps([result.model_dump() for result in results], indent=2)
CliPrintJson ==
    /\ pc = "cli_print"
    /\ response[1].results # <<>>
    /\ args[1].json
    /\ out' = out \o <<[kind |-> "json", value |-> response[1].results]>>
    /\ pc' = "cli_done"
    /\ UNCHANGED <<caller, args, kwargs, req, tl, calls, raw_results, idx,
                   results, response, region_codes, resource>>

\* enumerate(results, 1)
EnumerateStart == 1

\* body[:BODY_PREVIEW_LENGTH]
Preview(body) ==
    SubSeq(body, 1, IF Len(body) < BODY_PREVIEW_LENGTH
                    THEN Len(body) ELSE BODY_PREVIEW_LENGTH)

\* the ellipsis from the limit on
EllipsisAtLimit(body) ==
    IF Len(body) >= BODY_PREVIEW_LENGTH THEN "..." ELSE ""

\* '...' if len(body) > BODY_PREVIEW_LENGTH else ''
Ellipsis(body) == IF Len(body) > BODY_PREVIEW_LENGTH THEN "..." ELSE ""

\* the four writes of the loop body for the result numbered n
ResultLines(n, result) ==
    <<[kind |-> "title", n |-> n, title |-> result.title],
      [kind |-> "url", url |-> result.url],
      [kind |-> "body", preview |-> Preview(result.body),
       ellipsis |-> Ellipsis(result.body)],
      [kind |-> "blank"]>>

\* the loop without the counter advancing
RECURSIVE ListLinesSameNumber(_, _)
ListLinesSameNumber(rs, n) ==
    IF rs = <<>> THEN <<>>
    ELSE ResultLines(n, Head(rs)) \o ListLinesSameNumber(Tail(rs), n)

\* for i, result in enumerate(results, 1): the writes of all iterations
RECURSIVE ListLines(_, _)
ListLines(rs, n) ==
    IF rs = <<>> THEN <<>>
    ELSE ResultLines(n, Head(rs)) \o ListLines(Tail(rs), n + 1)

CliPrintList ==
    /\ pc = "cli_print"
    /\ response[1].results # <<>>
    /\ ~args[1].json
    /\ out' = out \o ListLines(response[1].results, EnumerateStart)
    /\ pc' = "cli_done"
    /\ UNCHANGED <<caller, args, kwargs, req, tl, calls, raw_results, idx,
                   results, response, region_codes, resource>>

-----------------------------------------------------------------------------
(* The whole program *)

Next ==
    \/ McpCall
    \/ ToolMapTimelimit
    \/ ToolDispatch
    \/ ToolLoopAppend
    \/ ToolLoopRaise
    \/ ToolReturn
    \/ McpNext
    \/ McpReadRegions
    \/ CliStart
    \/ CliPromptSearchAssistant
    \/ CliPromptResearchPlanner
    \/ CliRegions
    \/ CliUsageError
    \/ CliSearch
    \/ CliPrintNoResults
    \/ CliPrintJson
    \/ CliPrintList

Spec == Init /\ [][Next]_vars

-----------------------------------------------------------------------------
(* search_tool on every shape of provider record *)

Keys == {"title", "href", "url", "content", "image", "body", "description"}

\* a value that tells which key it came from
KeyValue(k) ==
    CASE k = "title"       -> <<"T">>
      [] k = "href"        -> <<"h">>
      [] k = "url"         -> <<"u">>
      [] k = "content"     -> <<"c">>
      [] k = "image"       -> <<"i">>
      [] k = "body"        -> <<"B">>
      [] k = "description" -> <<"D">>

\* every record over a subset of Keys: each key it has holds None, "" or
\* its value
AllRawRecords ==
    UNION { UNION { { [k \in D |-> IF k \in N THEN None
                                   ELSE IF k \in E THEN S(<<>>)
                                   ELSE S(KeyValue(k))] :
                      E \in SUBSET (D \ N) } :
                    N \in SUBSET D } :
            D \in SUBSET Keys }

SingleRecordReturns == {<<r>> : r \in AllRawRecords}

NormCalls ==
    [query      : {<<"q">>},
     max_results: {1},
     categories : {<<c>> : c \in Categories},
     region     : {<<>>},
     safesearch : {"off"},
     timelimit  : {None}]

NextNorm ==
    \/ McpCallFrom(NormCalls)
    \/ ToolMapTimelimit
    \/ ToolDispatchFrom(SingleRecordReturns)
    \/ ToolLoopAppend
    \/ ToolLoopRaise
    \/ ToolReturn
    \/ McpNext

SpecNorm == Init /\ [][NextNorm]_vars

-----------------------------------------------------------------------------
(* search_tool on every spelling of a time-limit token *)

UpperChar(c) ==
    IF \E n \in 1..Len(LowerCase) : LowerCase[n] = c
    THEN UpperCase[CHOOSE n \in 1..Len(LowerCase) : LowerCase[n] = c]
    ELSE c

Upper(s) == [n \in 1..Len(s) |-> UpperChar(s[n])]

Capitalize(s) ==
    IF s = <<>> THEN s ELSE <<UpperChar(Head(s))>> \o Tail(s)

\* the four words of the table, and words outside it: a longer and a shorter
\* word, the provider's own codes, a word with a blank inside, no word
TokenWords ==
    {<<"d","a","y">>, <<"w","e","e","k">>, <<"m","o","n","t","h">>,
     <<"y","e","a","r">>, <<"d","e","c","a","d","e">>,
     <<"w","e","e","k","s">>, <<"w","e","e">>, <<"d">>, <<"w">>,
     <<"w","e"," ","e","k">>, <<>>}

TokenPads == {<<>>, <<" ">>, <<"\t", " ">>, <<"\n">>}

Tokens ==
    { l \o v \o r :
        l \in TokenPads, r \in TokenPads,
        v \in UNION {{w, Upper(w), Capitalize(w)} : w \in TokenWords} }

TimelimitCalls ==
    [query      : {<<"q">>},
     max_results: {1},
     categories : {<<>>},
     region     : {<<>>},
     safesearch : {"off"},
     timelimit  : {None} \cup {S(t) : t \in Tokens}]

NextTimelimit ==
    \/ McpCallFrom(TimelimitCalls)
    \/ ToolMapTimelimit
    \/ ToolDispatch
    \/ ToolLoopAppend
    \/ ToolLoopRaise
    \/ ToolReturn
    \/ McpNext

SpecTimelimit == Init /\ [][NextTimelimit]_vars

-----------------------------------------------------------------------------
(* Claims about the normalization of one record (SpecNorm) *)

\* the key is missing from the record, or holds None
MissingOrNull(r, k) == k \notin DOMAIN r \/ r[k] = None

\* the first alias of the list that the record holds with a non-empty value
RECURSIVE FirstPresent(_, _, _)
FirstPresent(r, aliases, fallback) ==
    IF aliases = <<>> THEN fallback
    ELSE IF Truthy(Get(r, Head(aliases))) THEN r[Head(aliases)].val
    ELSE FirstPresent(r, Tail(aliases), fallback)

\* C1: every raw record, under every category, is normalized without a
\* failure to exactly one record whose title, url and body are strings, and a
\* field whose source keys are all missing or null holds its placeholder.
C1_AlwaysPopulated ==
    /\ pc # "raised"
    /\ pc = "returned" =>
          /\ Len(response[1].results) = Len(raw_results)
          /\ \A k \in 1..Len(raw_results) :
                LET r == raw_results[k]
                    n == response[1].results[k]
                IN  /\ MissingOrNull(r, "title") => n.title = NoTitle
                    /\ (\A a \in {"href", "url", "content", "image"} :
                           MissingOrNull(r, a)) => n.url = NoURL
                    /\ (\A a \in {"body", "description"} :
                           MissingOrNull(r, a)) => n.body = NoBody

\* the url aliases of a category, in order
UrlAliases(category) ==
    CASE category \in {"text", "news"} -> <<"href", "url">>
      [] category = "images"           -> <<"href", "url", "image">>
      [] category = "videos"           -> <<"href", "url", "content">>

\* C2: the normalized url is the first present alias of the category's own
\* list (text, news: href, url; images: href, url, image; videos: href, url,
\* content), else "No URL"; a key outside the list never supplies it.
C2_UrlByCategory ==
    (pc = "returned" /\ req[1].categories \in Categories) =>
        \A k \in 1..Len(raw_results) :
            response[1].results[k].url =
                FirstPresent(raw_results[k], UrlAliases(req[1].categories),
                             NoURL)

\* C3: the normalized body is the body field when present; description is a
\* fallback for videos only; otherwise the body is "No body".
C3_DescriptionVideosOnly ==
    (pc = "returned" /\ req[1].categories \in Categories) =>
        \A k \in 1..Len(raw_results) :
            response[1].results[k].body =
                FirstPresent(raw_results[k],
                             IF req[1].categories = "videos"
                             THEN <<"body", "description">>
                             ELSE <<"body">>,
                             NoBody)

-----------------------------------------------------------------------------
(* Claims about the provider call *)

\* the region the caller supplied, None when it supplied none
SuppliedRegion == IF kwargs[1].region = <<>> THEN None ELSE kwargs[1].region[1]

\* C4: the region passed to the provider equals the request's region,
\* absence included: no fixed region code is substituted.
C4_RegionPassedThrough ==
    \A k \in 1..Len(calls) : calls[k].region = SuppliedRegion

\* c and w are the same letter, whatever their case
SameLetter(c, w) ==
    \/ c = w
    \/ \E n \in 1..Len(LowerCase) :
          {c, w} = {LowerCase[n], UpperCase[n]}

\* the token is the word in any case, with any blanks around it
Spells(token, word) ==
    \E l \in 0..Len(token) :
        /\ l + Len(word) <= Len(token)
        /\ \A n \in 1..l : token[n] \in Whitespace
        /\ \A n \in 1..Len(word) : SameLetter(token[l + n], word[n])
        /\ \A n \in (l + Len(word) + 1)..Len(token) : token[n] \in Whitespace

\* the provider's code for a time-limit token, as the table of section 4.2
\* gives it
TimelimitCode(t) ==
    IF ~IsStr(t) THEN None
    ELSE IF Spells(t.val, <<"d","a","y">>) THEN S(<<"d">>)
    ELSE IF Spells(t.val, <<"w","e","e","k">>) THEN S(<<"w">>)
    ELSE IF Spells(t.val, <<"m","o","n","t","h">>) THEN S(<<"m">>)
    ELSE IF Spells(t.val, <<"y","e","a","r">>) THEN S(<<"y">>)
    ELSE None

\* search_tool has been entered and its provider call is still to come
BeforeDispatch == req # <<>> /\ pc \in {"tool_entry", "tool_dispatch"}

\* search_tool has made its provider call
AfterDispatch == req # <<>> /\ pc \notin {"tool_entry", "tool_dispatch"}

\* C5: day, week, month, year in any case and with blanks around them reach
\* the provider as d, w, m, y; every other token and an absent token reach it
\* as no time restriction; the token never makes the call fail.
C5_TimelimitMapped ==
    /\ pc = "tool_dispatch" => tl = TimelimitCode(kwargs[1].timelimit)
    /\ AfterDispatch =>
          /\ Len(calls) = 1
          /\ calls[1].timelimit = TimelimitCode(kwargs[1].timelimit)
    /\ pc = "raised" =>
          /\ calls # <<>>
          /\ idx <= Len(raw_results)
          /\ ~IsStr(TitleOf(raw_results[idx]))

C5_Witness ==
    /\ pc = "returned"
    /\ kwargs[1].timelimit = S(<<"\t"," ","W","E","E","K"," ">>)
    /\ calls[1].timelimit = S(<<"w">>)

\* the method the category names; text when none or an unknown one is given
NamedMethod(c) ==
    IF c # <<>> /\ c[1] \in Categories THEN c[1] ELSE "text"

\* C6: every invocation of search_tool calls exactly one provider method
\* exactly once: the one its category names, text when no category is
\* supplied and text when the category is not one of the four.
C6_OneCallByCategory ==
    /\ req = <<>> => calls = <<>>
    /\ BeforeDispatch => calls = <<>>
    /\ AfterDispatch =>
          /\ Len(calls) = 1
          /\ calls[1].method = NamedMethod(kwargs[1].categories)

C6_Witness ==
    /\ pc = "returned"
    /\ kwargs[1].categories = <<"audio">>
    /\ Len(calls) = 1
    /\ calls[1].method = "text"

-----------------------------------------------------------------------------
(* Claims about the response *)

\* C7: in every response of search_tool, total_results is the number of
\* results, whatever the length of the provider's sequence, and query is the
\* query of the request.
C7_TotalIsLength ==
    response # <<>> =>
        /\ response[1].total_results = Len(response[1].results)
        /\ response[1].total_results = Len(raw_results)
        /\ response[1].query = kwargs[1].query

C7_Witness ==
    /\ response # <<>>
    /\ Len(raw_results) = 2
    /\ response[1].total_results = 2
    /\ response[1].query = <<"d","d","g">>

\* the results built from the first n records of the provider, in order
MatchesPrefix(rs, n) ==
    /\ Len(rs) = n
    /\ \A k \in 1..n :
          LET r == raw_results[k]
          IN  /\ rs[k].title = TitleOf(r).val
              /\ rs[k].url = UrlOf(r).val
              /\ rs[k].body = BodyOf(r).val
              /\ Truthy(Get(r, "href")) => rs[k].url = r.href.val
              /\ (~Truthy(Get(r, "href")) /\ Truthy(Get(r, "url"))) =>
                     rs[k].url = r.url.val

\* C8: the results are the provider's records normalized one to one and in
\* order (none dropped, duplicated or reordered), during the loop and in the
\* response, and a present href, else url, is the result's url unchanged.
C8_OneToOneInOrder ==
    /\ pc = "tool_loop" => MatchesPrefix(results, idx - 1)
    /\ response # <<>> => MatchesPrefix(response[1].results, Len(raw_results))

C8_Witness ==
    /\ response # <<>>
    /\ raw_results = <<RawNews, RawText>>
    /\ response[1].results[1].url = <<"u","2">>
    /\ response[1].results[2].url = <<"h","1">>

-----------------------------------------------------------------------------
(* Claims about main_cli *)

\* main_cli took none of its three early returns
OnSearchPath ==
    /\ caller = "cli"
    /\ pc # "cli_main"
    /\ ~Truthy(args[1].prompt_search_assistant)
    /\ ~Truthy(args[1].prompt_research_planner)
    /\ ~args[1].resoure_regions

\* C9: on the search path an empty query (the positional tokens joined with
\* blanks) ends in the usage error without a provider call; main_cli never
\* calls the provider with an empty query.
C9_EmptyQueryRejected ==
    /\ (OnSearchPath /\ Join(args[1].query) = <<>>) =>
           (pc = "cli_usage_error" /\ calls = <<>>)
    /\ caller = "cli" => \A k \in 1..Len(calls) : calls[k].query # <<>>

\* s is the first Len(s) characters of t
IsPrefix(s, t) == Len(s) <= Len(t) /\ s = SubSeq(t, 1, Len(s))

\* C10: when main_cli returns from the search path it has written exactly
\* "No results found." for an empty result set, with or without --json;
\* for a non-empty one the JSON array of all results with --json, and else,
\* for each result in response order, numbered from 1: its title, its URL,
\* a preview of its body and a blank line.
C10_SearchOutput ==
    (OnSearchPath /\ pc = "cli_done") =>
        LET rs == response[1].results
        IN  /\ response # <<>>
            /\ rs = <<>> =>
                  out = <<[kind |-> "line", text |-> "No results found."]>>
            /\ (rs # <<>> /\ args[1].json) =>
                  /\ Len(out) = 1
                  /\ out[1].kind = "json"
                  /\ Len(out[1].value) = Len(rs)
                  /\ \A k \in 1..Len(rs) :
                        out[1].value[k] =
                            [title |-> rs[k].title, url |-> rs[k].url,
                             body |-> rs[k].body]
            /\ (rs # <<>> /\ ~args[1].json) =>
                  /\ Len(out) = 4 * Len(rs)
                  /\ \A k \in 1..Len(rs) :
                        /\ out[4 * k - 3] =
                              [kind |-> "title", n |-> k,
                               title |-> rs[k].title]
                        /\ out[4 * k - 2] = [kind |-> "url", url |-> rs[k].url]
                        /\ out[4 * k - 1].kind = "body"
                        /\ IsPrefix(out[4 * k - 1].preview, rs[k].body)
                        /\ out[4 * k] = [kind |-> "blank"]

C10_Witness ==
    /\ OnSearchPath
    /\ pc = "cli_done"
    /\ ~args[1].json
    /\ Len(response[1].results) = 2
    /\ out[5].kind = "title"
    /\ out[5].n = 2

-----------------------------------------------------------------------------
(* main_cli on bodies around the preview length (SpecPreview) *)

\* how far below and above BODY_PREVIEW_LENGTH the bodies reach
MaxOver == 2

\* a body of n characters, no two neighbours alike
BodyOfLength(n) == [k \in 1..n |-> LowerCase[((k - 1) % Len(LowerCase)) + 1]]

BodyLengths ==
    {1} \cup {BODY_PREVIEW_LENGTH + d : d \in (0 - MaxOver)..MaxOver}

\* a text record with a body of n characters
RawWithBody(n) ==
    [title |-> S(<<"T">>), href |-> S(<<"h">>), body |-> S(BodyOfLength(n))]

PreviewReturns ==
    SeqsUpTo({RawWithBody(n) : n \in BodyLengths} \cup {RawNullTitle}, MaxLen)

PreviewArgs ==
    [query           : {<<>>, << <<"a">> >>},
     max_results     : {10},
     region          : {None},
     safesearch      : {"off"},
     timelimit       : {None},
     categories      : {"text"},
     json            : BOOLEAN,
     resoure_regions : BOOLEAN,
     prompt_search_assistant         : {None, S(<<"p">>)},
     prompt_search_assistant_context : {<<>>},
     prompt_research_planner         : {None, S(<<"r">>)},
     prompt_research_planner_depth   : {"basic"}]

NextPreview ==
    \/ CliStartFrom(PreviewArgs)
    \/ CliPromptSearchAssistant
    \/ CliPromptResearchPlanner
    \/ CliRegions
    \/ CliUsageError
    \/ CliSearch
    \/ ToolMapTimelimit
    \/ ToolDispatchFrom(PreviewReturns)
    \/ ToolLoopAppend
    \/ ToolLoopRaise
    \/ ToolReturn
    \/ CliPrintNoResults
    \/ CliPrintJson
    \/ CliPrintList

SpecPreview == Init /\ [][NextPreview]_vars

\* C11: the printed preview is the first 200 characters of the body, never
\* longer than 200; "..." follows it exactly when the body is longer than 200
\* (a body of exactly 200 is printed whole, without it); the body of the
\* normalized record is the provider's body, never truncated.
C11_PreviewAndEllipsis ==
    /\ response # <<>> =>
          \A k \in 1..Len(response[1].results) :
              Truthy(Get(raw_results[k], "body")) =>
                  response[1].results[k].body = raw_results[k].body.val
    /\ (OnSearchPath /\ pc = "cli_done" /\ ~args[1].json) =>
          \A k \in 1..Len(response[1].results) :
              LET body == response[1].results[k].body
                  line == out[4 * k - 1]
              IN  /\ line.kind = "body"
                  /\ Len(line.preview) <= 200
                  /\ Len(line.preview) = IF Len(body) <= 200
                                         THEN Len(body) ELSE 200
                  /\ \A n \in 1..Len(line.preview) : line.preview[n] = body[n]
                  /\ Len(body) = 200 => line.preview = body
                  /\ line.ellipsis = "..." <=> Len(body) > 200
                  /\ line.ellipsis \in {"...", ""}
    /\ (OnSearchPath /\ pc = "cli_done" /\ args[1].json
            /\ response[1].results # <<>>) =>
          \A k \in 1..Len(response[1].results) :
              out[1].value[k].body = response[1].results[k].body

C11_Witness ==
    /\ OnSearchPath
    /\ pc = "cli_done"
    /\ ~args[1].json
    /\ Len(response[1].results) = 2
    /\ Len(response[1].results[1].body) = 200
    /\ out[3].ellipsis = ""
    /\ Len(out[3].preview) = 200
    /\ Len(response[1].results[2].body) = 201
    /\ out[7].ellipsis = "..."
    /\ Len(out[7].preview) = 200

-----------------------------------------------------------------------------
(* Claims about what the provider call carries *)

\* C12: the provider call carries the safesearch level, the query and
\* max_results of the request unchanged, under every category and every
\* combination of the other options.
C12_PassedUnchanged ==
    AfterDispatch =>
        /\ Len(calls) = 1
        /\ calls[1].safesearch = kwargs[1].safesearch
        /\ calls[1].query = kwargs[1].query
        /\ calls[1].max_results = kwargs[1].max_results

C12_Witness ==
    /\ pc = "returned"
    /\ kwargs[1].safesearch = "on"
    /\ kwargs[1].categories = <<"videos">>
    /\ kwargs[1].max_results = 50
    /\ kwargs[1].query = <<"d","d","g">>
    /\ Truthy(kwargs[1].timelimit)
    /\ calls[1].safesearch = "on"
    /\ calls[1].max_results = 50
    /\ calls[1].query = <<"d","d","g">>

-----------------------------------------------------------------------------
(* Claims about the regions resource *)

\* the places of the list that hold the code
PlacesOf(code, regions) ==
    {n \in 1..Len(regions) : regions[n].code = code}

\* C13: the regions resource returns note, count and regions; count is the
\* number of entries of the region-code table and of the list; every code of
\* the table is in the list exactly once, with the table's name; and no read
\* of the resource, however many there are, changes the table.
C13_RegionsResource ==
    /\ region_codes = REGION_CODES
    /\ pc = "resource_returned" => resource # <<>>
    /\ resource # <<>> =>
          LET data == resource[1]
          IN  /\ DOMAIN data = {"note", "count", "regions"}
              /\ data.note = RegionsNote
              /\ data.count = Len(REGION_CODES)
              /\ data.count = Len(data.regions)
              /\ \A k \in 1..Len(REGION_CODES) :
                    /\ Cardinality(PlacesOf(REGION_CODES[k].code,
                                            data.regions)) = 1
                    /\ \A n \in PlacesOf(REGION_CODES[k].code, data.regions) :
                          data.regions[n] =
                              [code |-> REGION_CODES[k].code,
                               name |-> REGION_CODES[k].name]

C13_Witness ==
    /\ pc = "resource_returned"
    /\ resource[1].count = 68
    /\ Len(resource[1].regions) = 68
    /\ resource[1].regions[68] = [code |-> "wt-wt", name |-> "No region"]
    /\ region_codes = REGION_CODES

-----------------------------------------------------------------------------
(* Claims about the modes of main_cli *)

\* main_cli has left its mode selection
PastModes == caller = "cli" /\ pc # "cli_main"

\* what the regions mode writes
RegionsOutput ==
    IF args[1].json
    THEN <<[kind |-> "json", value |-> get_regions]>>
    ELSE RegionLines(get_regions)

\* a run in the mode of the first flag that holds, with that mode's output
\* alone, no provider call and no usage error
ModesInOrder(assistant, planner, regions) ==
    /\ assistant =>
          /\ pc = "cli_done"
          /\ calls = <<>>
          /\ out = <<search_assistant(
                        args[1].prompt_search_assistant.val,
                        args[1].prompt_search_assistant_context)>>
    /\ (~assistant /\ planner) =>
          /\ pc = "cli_done"
          /\ calls = <<>>
          /\ out = <<research_planner(
                        args[1].prompt_research_planner.val,
                        args[1].prompt_research_planner_depth)>>
    /\ (~assistant /\ ~planner /\ regions) =>
          /\ pc = "cli_done"
          /\ calls = <<>>
          /\ out = RegionsOutput

\* C14: the modes are taken in the order search-assistant prompt flag,
\* research-planner prompt flag, regions flag, search; whenever one of the
\* three flags is given the run writes that mode's output and returns, calls
\* no provider and needs no query, query tokens or not; and a run calls the
\* provider at most once.
C14_ModesByFlag ==
    /\ caller = "cli" => Len(calls) <= 1
    /\ PastModes =>
          ModesInOrder(args[1].prompt_search_assistant # None,
                       args[1].prompt_research_planner # None,
                       args[1].resoure_regions)

\* C14 as the code has it: a prompt flag selects its mode when its value is
\* not empty; a prompt flag given with the empty value counts as not given.
C14_ModesByNonEmptyFlag ==
    /\ caller = "cli" => Len(calls) <= 1
    /\ PastModes =>
          ModesInOrder(Truthy(args[1].prompt_search_assistant),
                       Truthy(args[1].prompt_research_planner),
                       args[1].resoure_regions)

C14_NonEmptyFlagWitness ==
    /\ pc = "cli_done"
    /\ Truthy(args[1].prompt_search_assistant)
    /\ Truthy(args[1].prompt_research_planner)
    /\ args[1].resoure_regions
    /\ args[1].query # <<>>
    /\ out[1].kind = "search_assistant"
    /\ calls = <<>>

====
